---- MODULE Spec2Model ----
(***************************************************************************)
(* Expense payout ledger records: computeExpenseAmounts,                   *)
(* createTransactionsFromPaidExpense, createTransactionsForManuallyPaid-   *)
(* Expense and computeExpenseTaxes of src/unnamed/part_000.                *)
(*                                                                         *)
(* Numbers.  Amounts and fees are integers (minor units).  An FX rate is   *)
(* a positive rational <<n, d>> standing for n/d; products and quotients   *)
(* are taken exactly and Math.round / lodash round are applied to the      *)
(* exact value (binary floating point representation error is not          *)
(* modelled).  A tax rate is an integer number of hundredths (20 is 0.20). *)
(* An optional value is <<>> when absent/null and <<v>> when present.      *)
(***************************************************************************)
EXTENDS Integers, Sequences, FiniteSets, TLC

VARIABLES
    pc,                   \* position of the running call
    call,                 \* the arguments the caller passed (never modified)
    expense,              \* the expense object (expense.collective is assigned by the builders)
    transactionData,      \* the caller's transactionData object (the manual builder writes into it)
    expenseToHostFxRate,  \* local of createTransactionsFromPaidExpense, <<>> until resolved
    processedAmounts,     \* local of createTransactionsFromPaidExpense, <<>> until computed
    amounts,              \* local of createTransactionsForManuallyPaidExpense, <<>> until computed
    submitted,            \* the records handed to models.Transaction.createDoubleEntry, in order
    lookups,              \* number of models.Collective.findByPk calls made
    error                 \* the error the call was rejected with, "none" otherwise

vars ==
    <<pc, call, expense, transactionData, expenseToHostFxRate, processedAmounts, amounts,
      submitted, lookups, error>>

---------------------------------------------------------------------------
(* Bounds of the explored inputs *)

MaxAmount == 2
MaxFee == 2
MaxTotal == 3

Currencies == {"USD", "EUR", "JPY"}
Amounts == (1..MaxAmount) \cup {1200, 10000}
ProcessorFees == (0..MaxFee) \cup {300}
OtherFees == {0, 1}
Rates == {<<1, 1>>, <<1, 2>>, <<3, 2>>, <<4, 1>>}
TaxLists == {<<0>>, <<20>>, <<10, 10>>, <<5, 0, 20>>}
ManualFees == (-1..MaxFee) \cup {300}
ManualTotals == (0..MaxTotal) \cup {10000}

Absent == <<>>
Auto == <<"auto">>
One == <<1, 1>>

---------------------------------------------------------------------------
(* Arithmetic *)

\* Math.round(p / q) for q > 0: the nearest integer, a half rounding up.
Round(p, q) == (2 * p + q) \div (2 * q)

Abs(n) == IF n < 0 THEN -n ELSE n

RECURSIVE SumSeq(_)
SumSeq(s) == IF s = <<>> THEN 0 ELSE Head(s) + SumSeq(Tail(s))

\* lib/math toNegative: the value as a negative (outflow) number.
toNegative(n) == IF n > 0 THEN -n ELSE n

---------------------------------------------------------------------------
(* computeExpenseAmounts *)

DEFAULT_FEES ==
    [paymentProcessorFeeInHostCurrency |-> 0,
     hostFeeInHostCurrency |-> 0,
     platformFeeInHostCurrency |-> 0]

\* { ...DEFAULT_FEES, ...fees }: a key the caller leaves out takes its default.
WithDefaultFees(fees) ==
    [k \in DOMAIN DEFAULT_FEES |-> IF k \in DOMAIN fees THEN fees[k] ELSE DEFAULT_FEES[k]]

\* amount * rate, rounded by Math.round
TimesRate(x, rate) == Round(x * rate[1], rate[2])

\* A slip: the quotient is truncated (Math.floor) instead of rounded.
OverRate_Truncated(x, rate) == (x * rate[2]) \div rate[1]

\* fee / rate, rounded by Math.round
OverRate(x, rate) == Round(x * rate[2], rate[1])

\* The three representations of one fee given in host currency.
FeeAmounts(fee, fxRates) ==
    [inHostCurrency |-> fee,
     inCollectiveCurrency |-> OverRate(fee, fxRates.collectiveToHost),
     inExpenseCurrency |-> OverRate(fee, fxRates.expenseToHost)]

\* The object computeExpenseAmounts returns once the FX rates are settled.
ProcessedAmounts(exp, fxRates, fees) ==
    [threw |-> FALSE,
     fxRates |-> fxRates,
     amount |-> [inHostCurrency |-> TimesRate(exp.amount, fxRates.expenseToHost),
                 inCollectiveCurrency |-> TimesRate(exp.amount, fxRates.expenseToCollective),
                 inExpenseCurrency |-> exp.amount],
     paymentProcessorFee |-> FeeAmounts(fees.paymentProcessorFeeInHostCurrency, fxRates),
     hostFee |-> FeeAmounts(fees.hostFeeInHostCurrency, fxRates),
     platformFee |-> FeeAmounts(fees.platformFeeInHostCurrency, fxRates)]

\* The outcome of the throw of computeExpenseAmounts.
Thrown == [threw |-> TRUE]

\* A slip: the two supported cases are tested in the other order.
computeExpenseAmounts_ExpenseFirst(exp, hostCurrency, rate, fees) ==
    IF exp.currency = exp.collective[1]
    THEN ProcessedAmounts(exp,
            [expenseToHost |-> rate, collectiveToHost |-> rate, expenseToCollective |-> One],
            fees)
    ELSE IF exp.collective[1] = hostCurrency
    THEN ProcessedAmounts(exp,
            [expenseToHost |-> rate, collectiveToHost |-> One, expenseToCollective |-> rate],
            fees)
    ELSE Thrown

\* A slip: only three mutually distinct currencies are refused; an expense in
\* the host's currency is taken as needing no conversion to it.
computeExpenseAmounts_OnlyDistinct(exp, hostCurrency, rate, fees) ==
    IF exp.collective[1] = hostCurrency
    THEN ProcessedAmounts(exp,
            [expenseToHost |-> rate, collectiveToHost |-> One, expenseToCollective |-> rate],
            fees)
    ELSE IF exp.currency = exp.collective[1] \/ exp.currency = hostCurrency
    THEN ProcessedAmounts(exp,
            [expenseToHost |-> rate, collectiveToHost |-> rate, expenseToCollective |-> One],
            fees)
    ELSE Thrown

\* exp.collective is present here: <<currency of the collective>>.
computeExpenseAmounts(exp, hostCurrency, rate, fees) ==
    IF exp.collective[1] = hostCurrency
    THEN ProcessedAmounts(exp,
            [expenseToHost |-> rate, collectiveToHost |-> One, expenseToCollective |-> rate],
            fees)
    ELSE IF exp.currency = exp.collective[1]
    THEN ProcessedAmounts(exp,
            [expenseToHost |-> rate, collectiveToHost |-> rate, expenseToCollective |-> One],
            fees)
    ELSE Thrown

---------------------------------------------------------------------------
(* computeExpenseTaxes and the data.tax block *)

\* expense.data?.taxes?.length is truthy
HasTaxes(exp) == exp.taxes # Absent /\ Len(exp.taxes[1]) > 0

\* A slip: only the first tax line's rate is used.
computeExpenseTaxes_FirstLineOnly(exp) ==
    IF ~HasTaxes(exp)
    THEN Absent
    ELSE LET den == 100 + exp.taxes[1][1]
         IN  << -Round(exp.amount * den - exp.amount * 100, den) >>

\* null (Absent) without tax lines, else <<the tax amount>>.  With the rates in
\* hundredths, 1 + ratesSum is (100 + s) / 100 and amountWithoutTaxes is
\* amount * 100 / (100 + s).  A result of -0 is returned as 0 (|| 0).
computeExpenseTaxes(exp) ==
    IF ~HasTaxes(exp)
    THEN Absent
    ELSE LET ratesSum == SumSeq(exp.taxes[1])
             den == 100 + ratesSum
         IN  << -Round(exp.amount * den - exp.amount * 100, den) >>

\* expenseDataForTransaction['tax'] from the first tax line
TaxBlock(exp) ==
    IF ~HasTaxes(exp)
    THEN Absent
    ELSE << [rate |-> exp.taxes[1][1], percentage |-> Round(exp.taxes[1][1] * 100, 100)] >>

---------------------------------------------------------------------------
(* createTransactionsFromPaidExpense: the record it assembles *)

\* A slip: the platform fee is left out of the net amount.
PaidNetAmount_NoPlatformFee(processed) ==
    -1 * (processed.amount.inCollectiveCurrency
          + processed.paymentProcessorFee.inCollectiveCurrency
          + processed.hostFee.inCollectiveCurrency)

\* netAmountInCollectiveCurrency of lines 176-181
PaidNetAmount(processed) ==
    -1 * (processed.amount.inCollectiveCurrency
          + processed.paymentProcessorFee.inCollectiveCurrency
          + processed.hostFee.inCollectiveCurrency
          + processed.platformFee.inCollectiveCurrency)

\* The transaction literal of lines 175-205.
PaidTransactionBase(host, exp, fees, rate, tdata, processed) ==
    [netAmountInCollectiveCurrency |-> PaidNetAmount(processed),
     amountInHostCurrency |-> -processed.amount.inHostCurrency,
     hostCurrency |-> host,
     hostCurrencyFxRate |-> processed.fxRates.collectiveToHost,
     paymentProcessorFeeInHostCurrency |-> toNegative(fees.paymentProcessorFeeInHostCurrency),
     hostFeeInHostCurrency |-> toNegative(fees.hostFeeInHostCurrency),
     platformFeeInHostCurrency |-> toNegative(fees.platformFeeInHostCurrency),
     type |-> "DEBIT",
     kind |-> "EXPENSE",
     amount |-> -processed.amount.inCollectiveCurrency,
     notFinite |-> <<>>,
     currency |-> exp.collective[1],
     taxAmount |-> computeExpenseTaxes(exp),
     data |-> [feesPayer |-> tdata.feesPayer,
               isManual |-> FALSE,
               expenseToHostFxRate |-> <<rate>>,
               tax |-> TaxBlock(exp)]]

\* A slip: the host-currency amount is adjusted by the collective-currency fee.
PayeeAdjusted_WrongCurrency(transaction, exp, processed) ==
    IF exp.feesPayer = "PAYEE"
    THEN [transaction EXCEPT
            !.amount = @ + processed.paymentProcessorFee.inCollectiveCurrency,
            !.amountInHostCurrency = @ + processed.paymentProcessorFee.inCollectiveCurrency,
            !.netAmountInCollectiveCurrency = @ + processed.paymentProcessorFee.inCollectiveCurrency,
            !.data.feesPayer = "PAYEE"]
    ELSE transaction

\* A slip: the net amount is left as it was.
PayeeAdjusted_NetUntouched(transaction, exp, processed) ==
    IF exp.feesPayer = "PAYEE"
    THEN [transaction EXCEPT
            !.amount = @ + processed.paymentProcessorFee.inCollectiveCurrency,
            !.amountInHostCurrency = @ + processed.paymentProcessorFee.inHostCurrency,
            !.data.feesPayer = "PAYEE"]
    ELSE transaction

\* The adjustment of lines 207-213 when the payee assumes the fees.
PayeeAdjusted(transaction, exp, processed) ==
    IF exp.feesPayer = "PAYEE"
    THEN [transaction EXCEPT
            !.amount = @ + processed.paymentProcessorFee.inCollectiveCurrency,
            !.amountInHostCurrency = @ + processed.paymentProcessorFee.inHostCurrency,
            !.netAmountInCollectiveCurrency = @ + processed.paymentProcessorFee.inCollectiveCurrency,
            !.data.feesPayer = "PAYEE"]
    ELSE transaction

---------------------------------------------------------------------------
(* createTransactionsForManuallyPaidExpense: the amounts and the record *)

\* A slip: the processor fee is stored as given, not as an outflow.
ManualBaseAmounts_FeeAsGiven(paymentProcessorFeeInHostCurrency, totalAmountPaidInHostCurrency) ==
    LET grossAmount == toNegative(totalAmountPaidInHostCurrency - paymentProcessorFeeInHostCurrency)
    IN  [amount |-> grossAmount,
         amountInHostCurrency |-> grossAmount,
         paymentProcessorFeeInHostCurrency |-> paymentProcessorFeeInHostCurrency,
         netAmountInCollectiveCurrency |-> toNegative(totalAmountPaidInHostCurrency),
         hostCurrencyFxRate |-> One,
         notFinite |-> <<>>]

\* amounts of lines 230-239, before the currency adjustment
ManualBaseAmounts(paymentProcessorFeeInHostCurrency, totalAmountPaidInHostCurrency) ==
    LET grossAmount == toNegative(totalAmountPaidInHostCurrency - paymentProcessorFeeInHostCurrency)
    IN  [amount |-> grossAmount,
         amountInHostCurrency |-> grossAmount,
         paymentProcessorFeeInHostCurrency |-> toNegative(paymentProcessorFeeInHostCurrency),
         netAmountInCollectiveCurrency |-> toNegative(totalAmountPaidInHostCurrency),
         hostCurrencyFxRate |-> One,
         notFinite |-> <<>>]

\* round(x / rate) for x <= 0 and rate = fx / 100000 >= 0, with what a zero rate
\* gives in IEEE arithmetic: 0 / 0 is NaN, a negative number / 0 is -Infinity.
\* A value that is not finite is kept as 0 and named in notFinite.
ValueOverFx(x, fx) == IF fx > 0 THEN Round(x * 100000, fx) ELSE 0
ClassOverFx(x, fx) == IF fx > 0 THEN "finite" ELSE IF x = 0 THEN "NaN" ELSE "-Infinity"

\* A slip: the net amount is not rescaled.
ManualCurrencyAdjusted_NetNotRescaled(base, exp) ==
    LET fx == Round(Abs(base.amountInHostCurrency) * 100000, exp.amount)
        bad == {f \in {"amount"} : ClassOverFx(base[f], fx) # "finite"}
    IN  [base EXCEPT
            !.hostCurrencyFxRate = <<fx, 100000>>,
            !.amount = ValueOverFx(base.amount, fx),
            !.notFinite = [f \in bad |-> ClassOverFx(base[f], fx)]]

\* lines 252-254: the rate is round(|grossAmount / expense.amount|, 5), kept as
\* <<fx, 100000>>
ManualCurrencyAdjusted(base, exp) ==
    LET fx == Round(Abs(base.amountInHostCurrency) * 100000, exp.amount)
        bad == {f \in {"amount", "netAmountInCollectiveCurrency"} : ClassOverFx(base[f], fx) # "finite"}
    IN  [base EXCEPT
            !.hostCurrencyFxRate = <<fx, 100000>>,
            !.amount = ValueOverFx(base.amount, fx),
            !.netAmountInCollectiveCurrency = ValueOverFx(base.netAmountInCollectiveCurrency, fx),
            !.notFinite = [f \in bad |-> ClassOverFx(base[f], fx)]]

\* The transaction literal of lines 269-290.
ManualTransaction(host, exp, manualAmounts, tdata) ==
    [netAmountInCollectiveCurrency |-> manualAmounts.netAmountInCollectiveCurrency,
     amountInHostCurrency |-> manualAmounts.amountInHostCurrency,
     hostCurrency |-> host,
     hostCurrencyFxRate |-> manualAmounts.hostCurrencyFxRate,
     paymentProcessorFeeInHostCurrency |-> manualAmounts.paymentProcessorFeeInHostCurrency,
     hostFeeInHostCurrency |-> 0,
     platformFeeInHostCurrency |-> 0,
     type |-> "DEBIT",
     kind |-> "EXPENSE",
     amount |-> manualAmounts.amount,
     notFinite |-> manualAmounts.notFinite,
     currency |-> exp.collective[1],
     taxAmount |-> computeExpenseTaxes(exp),
     data |-> [feesPayer |-> tdata.feesPayer,
               isManual |-> TRUE,
               expenseToHostFxRate |-> Absent,
               tax |-> TaxBlock(exp)]]


---------------------------------------------------------------------------
(* The calls explored *)

Paid == "createTransactionsFromPaidExpense"
Manual == "createTransactionsForManuallyPaidExpense"
FeesPayers == {"COLLECTIVE", "PAYEE"}

\* An expense whose collective is loaded (collective = <<its currency>>) or not.
Expense(amount, currency, feesPayer, taxes, collective) ==
    [amount |-> amount, currency |-> currency, feesPayer |-> feesPayer,
     taxes |-> taxes, collective |-> collective]

\* collectiveCurrency is the currency of the collective models.Collective holds
\* for expense.CollectiveId.
PaidCall(host, exp, collectiveCurrency, fees, config) ==
    [fn |-> Paid, host |-> host, expense |-> exp, collectiveCurrency |-> collectiveCurrency,
     fees |-> fees, expenseToHostFxRateConfig |-> config]

ManualCall(host, exp, collectiveCurrency, fee, total) ==
    [fn |-> Manual, host |-> host, expense |-> exp, collectiveCurrency |-> collectiveCurrency,
     paymentProcessorFeeInHostCurrency |-> fee, totalAmountPaidInHostCurrency |-> total]

\* Every currency combination, amount, fee, rate and fee payer; no tax lines.
ArithmeticCalls ==
    { PaidCall(h, Expense(a, ec, fp, Absent, <<cc>>), cc,
               [paymentProcessorFeeInHostCurrency |-> ppf,
                hostFeeInHostCurrency |-> hf,
                platformFeeInHostCurrency |-> pf], r) :
        h \in Currencies, ec \in Currencies, cc \in Currencies, a \in Amounts,
        fp \in FeesPayers, ppf \in ProcessorFees, hf \in OtherFees, pf \in OtherFees,
        r \in Rates }

\* Tax lines (a list, an empty list, no list) on single-currency calls that leave
\* the fees to their defaults.
TaxOptions == {Absent, << <<>> >>} \cup { <<l>> : l \in TaxLists }

TaxedCalls ==
    { PaidCall("USD", Expense(a, "USD", fp, t, <<"USD">>), "USD", <<>>, One) :
        a \in Amounts, fp \in FeesPayers, t \in TaxOptions }
    \cup
    { ManualCall("USD", Expense(a, "USD", fp, t, <<"USD">>), "USD", 0, a) :
        a \in Amounts, fp \in FeesPayers, t \in TaxOptions }

\* Calls that need the collective looked up or the FX rate fetched.
LookupCalls ==
    { PaidCall(h, Expense(10000, ec, fp, Absent, IF loaded THEN <<cc>> ELSE Absent),
               cc, <<>>, cfg) :
        h \in Currencies, ec \in Currencies, cc \in Currencies, fp \in FeesPayers,
        loaded \in BOOLEAN, cfg \in {Auto, One} }
    \cup
    { ManualCall(h, Expense(10000, ec, fp, Absent, Absent), cc, f, 10000) :
        h \in Currencies, ec \in Currencies, cc \in Currencies, fp \in FeesPayers,
        f \in {-1, 0} }

\* Manual payments: every currency combination, fee and total, valid or not.
ManualCalls ==
    { ManualCall(h, Expense(a, ec, fp, Absent, <<cc>>), cc, f, t) :
        h \in Currencies, ec \in Currencies, cc \in Currencies, a \in Amounts,
        fp \in FeesPayers, f \in ManualFees, t \in ManualTotals }

Calls == ArithmeticCalls \cup TaxedCalls \cup LookupCalls \cup ManualCalls

---------------------------------------------------------------------------
(* The state machine of one call *)

Init ==
    /\ call \in Calls
    /\ pc = IF call.fn = Paid THEN "resolveCollective" ELSE "checkArguments"
    /\ expense = call.expense
    /\ transactionData = [feesPayer |-> "none"]
    /\ expenseToHostFxRate = Absent
    /\ processedAmounts = Absent
    /\ amounts = Absent
    /\ submitted = <<>>
    /\ lookups = 0
    /\ error = "none"

Fail(message) ==
    /\ pc' = "failed"
    /\ error' = message

\* line 154: expense.collective = expense.collective || (await findByPk(...))
P_ResolveCollective ==
    /\ pc = "resolveCollective"
    /\ call.fn = Paid
    /\ \/ /\ expense.collective # Absent
          /\ pc' = "resolveFxRate"
          /\ UNCHANGED <<expense, lookups, error>>
       \/ /\ expense.collective = Absent
          /\ lookups' = lookups + 1
          /\ \/ /\ expense' = [expense EXCEPT !.collective = <<call.collectiveCurrency>>]
                /\ pc' = "resolveFxRate"
                /\ UNCHANGED error
             \/ /\ pc' = "resolveFxRate"      \* findByPk resolves to null
                /\ UNCHANGED <<expense, error>>
             \/ /\ Fail("findByPk rejected")
                /\ UNCHANGED expense
    /\ UNCHANGED <<call, transactionData, expenseToHostFxRate, processedAmounts, amounts, submitted>>

\* lines 157-160: the supplied rate, or getFxRate's for 'auto'
P_ResolveFxRate ==
    /\ pc = "resolveFxRate"
    /\ \/ /\ call.expenseToHostFxRateConfig # Auto
          /\ expenseToHostFxRate' = <<call.expenseToHostFxRateConfig>>
          /\ pc' = "build"
          /\ UNCHANGED error
       \/ /\ call.expenseToHostFxRateConfig = Auto
          /\ \E r \in Rates : expenseToHostFxRate' = <<r>>
          /\ pc' = "build"
          /\ UNCHANGED error
       \/ /\ call.expenseToHostFxRateConfig = Auto
          /\ Fail("getFxRate rejected")
          /\ UNCHANGED expenseToHostFxRate
    /\ UNCHANGED <<call, expense, transactionData, processedAmounts, amounts, submitted, lookups>>

MultiCurrencyNotSupported ==
    "Multi-currency expenses are not supported for collectives that have a different currency than their hosts"

\* The record lines 162-213 assemble, or the error computeExpenseAmounts throws
\* (a TypeError at line 94 when expense.collective is null).
PaidOutcome(host, exp, fees, rate, tdata) ==
    LET computed == computeExpenseAmounts(exp, host, rate, fees)
    IN  IF exp.collective = Absent
        THEN [threw |-> "TypeError"]
        ELSE IF computed.threw
        THEN [threw |-> MultiCurrencyNotSupported]
        ELSE [threw |-> "none",
              processedAmounts |-> computed,
              transaction |-> PayeeAdjusted(
                  PaidTransactionBase(host, exp, fees, rate, tdata, computed),
                  exp, computed)]

\* lines 162-215, up to the call of createDoubleEntry
P_Build ==
    /\ pc = "build"
    /\ call.fn = Paid
    /\ LET outcome == PaidOutcome(call.host, expense, WithDefaultFees(call.fees),
                                  expenseToHostFxRate[1], transactionData)
       IN  IF outcome.threw # "none"
           THEN /\ Fail(outcome.threw)
                /\ UNCHANGED <<processedAmounts, submitted>>
           ELSE /\ processedAmounts' = <<outcome.processedAmounts>>
                /\ submitted' = Append(submitted, outcome.transaction)
                /\ pc' = "createDoubleEntry"
                /\ UNCHANGED error
    /\ UNCHANGED <<call, expense, transactionData, expenseToHostFxRate, amounts, lookups>>

\* A slip: the two comparisons are exchanged (fee > 0, total >= 0).
ManualArgumentError_Exchanged(paymentProcessorFeeInHostCurrency, totalAmountPaidInHostCurrency) ==
    IF ~(paymentProcessorFeeInHostCurrency > 0)
    THEN "Payment processor fee must be positive"
    ELSE IF ~(totalAmountPaidInHostCurrency >= 0)
    THEN "Total amount paid must be positive"
    ELSE "none"

\* lines 226-227: the message of the assertion that fails, "none" if both hold
ManualArgumentError(paymentProcessorFeeInHostCurrency, totalAmountPaidInHostCurrency) ==
    IF ~(paymentProcessorFeeInHostCurrency >= 0)
    THEN "Payment processor fee must be positive"
    ELSE IF ~(totalAmountPaidInHostCurrency > 0)
    THEN "Total amount paid must be positive"
    ELSE "none"

M_CheckArguments ==
    /\ pc = "checkArguments"
    /\ LET message == ManualArgumentError(call.paymentProcessorFeeInHostCurrency,
                                          call.totalAmountPaidInHostCurrency)
       IN  IF message # "none"
           THEN Fail(message)
           ELSE pc' = "computeAmounts" /\ UNCHANGED error
    /\ UNCHANGED <<call, expense, transactionData, expenseToHostFxRate, processedAmounts, amounts,
                   submitted, lookups>>

\* lines 241-244: set(transactionData, 'feesPayer', 'PAYEE') on the caller's object
Tagged(tdata, exp) ==
    IF exp.feesPayer = "PAYEE" THEN [tdata EXCEPT !.feesPayer = "PAYEE"] ELSE tdata

\* lines 229-255: the amounts, or the error of line 247 (expense.collective is
\* read before line 257 loads it) or of the assertion of line 248
ManualAmountsOutcome(host, exp, fee, total) ==
    IF exp.collective = Absent
    THEN [threw |-> "TypeError"]
    ELSE IF host # exp.collective[1]
    THEN IF exp.currency = exp.collective[1]
         THEN [threw |-> "none",
               amounts |-> ManualCurrencyAdjusted(ManualBaseAmounts(fee, total), exp)]
         ELSE [threw |-> "Expense currency must be the same as collective currency"]
    ELSE [threw |-> "none", amounts |-> ManualBaseAmounts(fee, total)]

M_ComputeAmounts ==
    /\ pc = "computeAmounts"
    /\ transactionData' = Tagged(transactionData, expense)
    /\ LET outcome == ManualAmountsOutcome(call.host, expense,
                                           call.paymentProcessorFeeInHostCurrency,
                                           call.totalAmountPaidInHostCurrency)
       IN  IF outcome.threw # "none"
           THEN /\ Fail(outcome.threw)
                /\ UNCHANGED amounts
           ELSE /\ amounts' = <<outcome.amounts>>
                /\ pc' = "build"
                /\ UNCHANGED error
    /\ UNCHANGED <<call, expense, expenseToHostFxRate, processedAmounts, submitted, lookups>>

\* lines 257-292, up to the call of createDoubleEntry.  expense.collective is
\* always set here (line 247 has read its currency), so line 257 looks nothing up.
M_Build ==
    /\ pc = "build"
    /\ call.fn = Manual
    /\ expense' = IF expense.collective # Absent THEN expense
                  ELSE [expense EXCEPT !.collective = <<call.collectiveCurrency>>]
    /\ lookups' = IF expense.collective # Absent THEN lookups ELSE lookups + 1
    /\ submitted' = Append(submitted,
                           ManualTransaction(call.host, expense', amounts[1], transactionData))
    /\ pc' = "createDoubleEntry"
    /\ UNCHANGED <<call, transactionData, expenseToHostFxRate, processedAmounts, amounts, error>>

\* A slip: a rejected createDoubleEntry is called once more with the same record.
DoubleEntryResult_Retried ==
    /\ pc = "createDoubleEntry"
    /\ \/ pc' = "done" /\ UNCHANGED <<error, submitted>>
       \/ Fail("createDoubleEntry rejected") /\ UNCHANGED submitted
       \/ /\ Len(submitted) < 2
          /\ submitted' = Append(submitted, submitted[1])
          /\ UNCHANGED <<pc, error>>
    /\ UNCHANGED <<call, expense, transactionData, expenseToHostFxRate, processedAmounts, amounts,
                   lookups>>

\* models.Transaction.createDoubleEntry resolves or rejects; the builder returns
\* its promise as it is.
DoubleEntryResult ==
    /\ pc = "createDoubleEntry"
    /\ \/ pc' = "done" /\ UNCHANGED error
       \/ Fail("createDoubleEntry rejected")
    /\ UNCHANGED <<call, expense, transactionData, expenseToHostFxRate, processedAmounts, amounts,
                   submitted, lookups>>

Next ==
    \/ P_ResolveCollective
    \/ P_ResolveFxRate
    \/ P_Build
    \/ M_CheckArguments
    \/ M_ComputeAmounts
    \/ M_Build
    \/ DoubleEntryResult

Spec == Init /\ [][Next]_vars


---------------------------------------------------------------------------
(* Properties *)

\* The record handed to createDoubleEntry, and the inputs it was built from.
Sub == submitted[1]
PaidSubmitted == call.fn = Paid /\ submitted # <<>>
ManualSubmitted == call.fn = Manual /\ submitted # <<>>
PaidFees == WithDefaultFees(call.fees)
Processed == processedAmounts[1]
SameCurrencies == expense.currency = call.host /\ expense.collective = <<call.host>>

\* C1: a paid call whose fees payer is not the payee hands createDoubleEntry a
\* DEBIT/EXPENSE record in the collective currency with amount = -(gross in
\* collective currency), amountInHostCurrency = -(gross in host currency),
\* netAmountInCollectiveCurrency = -(gross + the three fees in collective
\* currency), each fee field the negated host-currency fee and hostCurrencyFxRate
\* = collectiveToHost; with equal currencies, rate 1 and no fees the three
\* amounts are all -expense.amount.
C1_PaidRecord ==
    (PaidSubmitted /\ expense.feesPayer # "PAYEE") =>
        /\ Sub.type = "DEBIT"
        /\ Sub.kind = "EXPENSE"
        /\ Sub.currency = expense.collective[1]
        /\ Sub.amount = -Processed.amount.inCollectiveCurrency
        /\ Sub.amountInHostCurrency = -Processed.amount.inHostCurrency
        /\ Sub.netAmountInCollectiveCurrency =
             -(Processed.amount.inCollectiveCurrency
               + Processed.paymentProcessorFee.inCollectiveCurrency
               + Processed.hostFee.inCollectiveCurrency
               + Processed.platformFee.inCollectiveCurrency)
        /\ Sub.paymentProcessorFeeInHostCurrency = -PaidFees.paymentProcessorFeeInHostCurrency
        /\ Sub.hostFeeInHostCurrency = -PaidFees.hostFeeInHostCurrency
        /\ Sub.platformFeeInHostCurrency = -PaidFees.platformFeeInHostCurrency
        /\ Sub.hostCurrencyFxRate = Processed.fxRates.collectiveToHost
        /\ (SameCurrencies /\ expenseToHostFxRate = <<One>> /\ PaidFees = DEFAULT_FEES) =>
              /\ Sub.amount = -expense.amount
              /\ Sub.amountInHostCurrency = -expense.amount
              /\ Sub.netAmountInCollectiveCurrency = -expense.amount

\* A record for a collective whose currency differs from the host's, with all
\* three fees charged.
C1_Witness ==
    /\ PaidSubmitted
    /\ expense.feesPayer = "COLLECTIVE"
    /\ expense.collective # <<call.host>>
    /\ expenseToHostFxRate = << <<3, 2>> >>
    /\ expense.amount = 10000
    /\ PaidFees.paymentProcessorFeeInHostCurrency = 300
    /\ PaidFees.hostFeeInHostCurrency = 1
    /\ PaidFees.platformFeeInHostCurrency = 1
    /\ Sub.amount = -10000
    /\ Sub.amountInHostCurrency = -15000
    /\ Sub.netAmountInCollectiveCurrency = -10202

\* C2: with feesPayer PAYEE the processor fee is added back to amount (in
\* collective currency) and amountInHostCurrency (in host currency), the net
\* amount is -(gross + host fee + platform fee) in collective currency and
\* data.feesPayer is PAYEE; otherwise nothing is adjusted and data.feesPayer is
\* what transactionData carried.
C2_PayeeAdjustment ==
    PaidSubmitted =>
        IF expense.feesPayer = "PAYEE"
        THEN /\ Sub.amount = -Processed.amount.inCollectiveCurrency
                              + Processed.paymentProcessorFee.inCollectiveCurrency
             /\ Sub.amountInHostCurrency = -Processed.amount.inHostCurrency
                                            + Processed.paymentProcessorFee.inHostCurrency
             /\ Sub.netAmountInCollectiveCurrency =
                  -(Processed.amount.inCollectiveCurrency
                    + Processed.hostFee.inCollectiveCurrency
                    + Processed.platformFee.inCollectiveCurrency)
             /\ Sub.data.feesPayer = "PAYEE"
        ELSE /\ Sub.amount = -Processed.amount.inCollectiveCurrency
             /\ Sub.amountInHostCurrency = -Processed.amount.inHostCurrency
             /\ Sub.netAmountInCollectiveCurrency =
                  -(Processed.amount.inCollectiveCurrency
                    + Processed.paymentProcessorFee.inCollectiveCurrency
                    + Processed.hostFee.inCollectiveCurrency
                    + Processed.platformFee.inCollectiveCurrency)
             /\ Sub.data.feesPayer = transactionData.feesPayer

\* The payee pays a processor fee whose host and collective values differ.
C2_Witness ==
    /\ PaidSubmitted
    /\ expense.feesPayer = "PAYEE"
    /\ Processed.paymentProcessorFee.inHostCurrency = 300
    /\ Processed.paymentProcessorFee.inCollectiveCurrency = 75
    /\ Processed.hostFee.inHostCurrency = 1
    /\ Sub.data.feesPayer = "PAYEE"

\* The case of C3: one currency, rate 1, no host or platform fee, payee pays.
C3_Case ==
    /\ PaidSubmitted
    /\ SameCurrencies
    /\ expenseToHostFxRate = <<One>>
    /\ PaidFees.hostFeeInHostCurrency = 0
    /\ PaidFees.platformFeeInHostCurrency = 0
    /\ expense.feesPayer = "PAYEE"

\* C3 as stated: amount and netAmountInCollectiveCurrency are both
\* -(expense.amount - p).
C3_AsStated ==
    C3_Case =>
        /\ Sub.amount = -(expense.amount - PaidFees.paymentProcessorFeeInHostCurrency)
        /\ Sub.netAmountInCollectiveCurrency =
             -(expense.amount - PaidFees.paymentProcessorFeeInHostCurrency)

\* C3 (amended): amount = -(expense.amount - p), and the net amount is
\* -expense.amount: the fee added back cancels the fee the net amount includes.
C3_PayeeSingleCurrency ==
    C3_Case =>
        /\ Sub.amount = -(expense.amount - PaidFees.paymentProcessorFeeInHostCurrency)
        /\ Sub.netAmountInCollectiveCurrency = -expense.amount

\* expense.amount = 10000 and p = 300: amount -9700, net amount -10000.
C3_Witness ==
    /\ C3_Case
    /\ expense.amount = 10000
    /\ PaidFees.paymentProcessorFeeInHostCurrency = 300
    /\ Sub.amount = -9700
    /\ Sub.netAmountInCollectiveCurrency = -10000

\* computeExpenseAmounts has been called (the collective and the rate resolved)
\* and has returned or thrown.
AmountsComputed ==
    /\ call.fn = Paid
    /\ pc \in {"createDoubleEntry", "done", "failed"}
    /\ error \notin {"findByPk rejected", "getFxRate rejected", "TypeError"}
AmountsReturned == AmountsComputed /\ processedAmounts # Absent
SuppliedRate == expenseToHostFxRate[1]

\* Exact product of two rates, compared by cross-multiplication.
RateIsProduct(r, a, b) == r[1] * (a[2] * b[2]) = (a[1] * b[1]) * r[2]

\* C4: in a returned result, collective currency = host currency gives
\* collectiveToHost = 1 and expenseToCollective = the supplied rate (also when the
\* expense currency equals both); otherwise expense currency = collective currency
\* gives collectiveToHost = the supplied rate and expenseToCollective = 1; and
\* expenseToHost is the supplied rate and equals expenseToCollective x
\* collectiveToHost exactly.
C4_FxRateTriple ==
    AmountsReturned =>
        LET fx == Processed.fxRates
        IN  /\ (expense.collective[1] = call.host) =>
                  /\ fx.collectiveToHost = One
                  /\ fx.expenseToCollective = SuppliedRate
            /\ (expense.collective[1] # call.host /\ expense.currency = expense.collective[1]) =>
                  /\ fx.collectiveToHost = SuppliedRate
                  /\ fx.expenseToCollective = One
            /\ fx.expenseToHost = SuppliedRate
            /\ RateIsProduct(fx.expenseToHost, fx.expenseToCollective, fx.collectiveToHost)

\* All three currencies equal and a rate other than 1: the first case decides.
C4_Witness ==
    /\ AmountsReturned
    /\ SameCurrencies
    /\ SuppliedRate = <<3, 2>>
    /\ Processed.fxRates.collectiveToHost = One
    /\ Processed.fxRates.expenseToCollective = <<3, 2>>

PairwiseDistinct ==
    /\ expense.currency # expense.collective[1]
    /\ expense.currency # call.host
    /\ expense.collective[1] # call.host

FeeNames == {"paymentProcessorFee", "hostFee", "platformFee"}
FeeInput(f) ==
    CASE f = "paymentProcessorFee" -> PaidFees.paymentProcessorFeeInHostCurrency
      [] f = "hostFee" -> PaidFees.hostFeeInHostCurrency
      [] f = "platformFee" -> PaidFees.platformFeeInHostCurrency

\* C6 as stated: each fee's host value is the input, and differs from the
\* collective value x collectiveToHost and from the expense value x expenseToHost
\* by at most 1 minor unit.
C6_AsStated ==
    AmountsReturned =>
        \A f \in FeeNames :
            LET fee == Processed[f]
                ch == Processed.fxRates.collectiveToHost
                eh == Processed.fxRates.expenseToHost
            IN  /\ fee.inHostCurrency = FeeInput(f)
                /\ Abs(fee.inHostCurrency * ch[2] - fee.inCollectiveCurrency * ch[1]) <= ch[2]
                /\ Abs(fee.inHostCurrency * eh[2] - fee.inExpenseCurrency * eh[1]) <= eh[2]

\* C6 (amended): each fee's host value is the input, and the collective and
\* expense values are within half a minor unit of host value / rate, that is
\* |inHostCurrency - value x rate| <= rate / 2 (at most 1 minor unit of the host
\* currency only for rates up to 2).
C6_FeeRepresentations ==
    AmountsReturned =>
        \A f \in FeeNames :
            LET fee == Processed[f]
                ch == Processed.fxRates.collectiveToHost
                eh == Processed.fxRates.expenseToHost
            IN  /\ fee.inHostCurrency = FeeInput(f)
                /\ 2 * Abs(fee.inHostCurrency * ch[2] - fee.inCollectiveCurrency * ch[1]) <= ch[1]
                /\ 2 * Abs(fee.inHostCurrency * eh[2] - fee.inExpenseCurrency * eh[1]) <= eh[1]
                /\ (ch[1] <= 2 * ch[2]) =>
                      Abs(fee.inHostCurrency * ch[2] - fee.inCollectiveCurrency * ch[1]) <= ch[2]
                /\ (eh[1] <= 2 * eh[2]) =>
                      Abs(fee.inHostCurrency * eh[2] - fee.inExpenseCurrency * eh[1]) <= eh[2]

\* A fee of 2 at rate 4 is 1 in collective currency (2 / 4 rounds up), which is
\* worth 4 in host currency.
C6_Witness ==
    /\ AmountsReturned
    /\ Processed.fxRates.collectiveToHost = <<4, 1>>
    /\ Processed.paymentProcessorFee.inHostCurrency = 2
    /\ Processed.paymentProcessorFee.inCollectiveCurrency = 1

OutflowFields ==
    {"amount", "amountInHostCurrency", "paymentProcessorFeeInHostCurrency",
     "hostFeeInHostCurrency", "platformFeeInHostCurrency"}

RoundsTo(v, p, q) == q > 0 /\ 2 * q * v <= 2 * p + q /\ 2 * p + q < 2 * q * (v + 1)

TaxLines == IF expense.taxes = Absent THEN <<>> ELSE expense.taxes[1]

\* C8: the record's taxAmount is null exactly when the expense has no tax lines
\* (no list or an empty one); otherwise it is -round(amount - amount / (1 + sum of
\* the rates)), which is 0 when the rates sum to 0 and never positive; an amount
\* of 1200 with one rate of 0.20 gives -200.  Both builders store it.
C8_TaxAmount ==
    (submitted # <<>>) =>
        LET s == SumSeq(TaxLines)
        IN  /\ (Sub.taxAmount = Absent) <=> (TaxLines = <<>>)
            /\ (TaxLines # <<>>) =>
                  /\ Len(Sub.taxAmount) = 1
                  /\ RoundsTo(-Sub.taxAmount[1], expense.amount * s, 100 + s)
                  /\ Sub.taxAmount[1] <= 0
                  /\ (s = 0) => Sub.taxAmount = <<0>>
            /\ (expense.amount = 1200 /\ TaxLines = <<20>>) => Sub.taxAmount = <<-200>>

\* Two tax lines of 0.10 on 1200, recorded by the manual builder.
C8_Witness ==
    /\ ManualSubmitted
    /\ expense.amount = 1200
    /\ TaxLines = <<10, 10>>
    /\ Sub.taxAmount = <<-200>>

ManualFee == call.paymentProcessorFeeInHostCurrency
ManualTotal == call.totalAmountPaidInHostCurrency

\* What C9 says of the record, for a given call.
C9_Record ==
    /\ Sub.amountInHostCurrency = -(ManualTotal - ManualFee)
    /\ Sub.paymentProcessorFeeInHostCurrency = -ManualFee
    /\ Sub.hostFeeInHostCurrency = 0
    /\ Sub.platformFeeInHostCurrency = 0
    /\ Sub.data.isManual = TRUE
    /\ Sub.data.feesPayer = (IF expense.feesPayer = "PAYEE" THEN "PAYEE" ELSE "none")
    /\ (call.host = expense.collective[1]) =>
          /\ Sub.amount = -(ManualTotal - ManualFee)
          /\ Sub.netAmountInCollectiveCurrency = -ManualTotal
          /\ Sub.hostCurrencyFxRate = One
          /\ Sub.notFinite = <<>>
    /\ (call.host # expense.collective[1]) =>
          LET fx == Sub.hostCurrencyFxRate[1]
          IN  /\ expense.currency = expense.collective[1]
              /\ Sub.hostCurrencyFxRate[2] = 100000
              /\ RoundsTo(fx, Abs(ManualTotal - ManualFee) * 100000, expense.amount)
              /\ (fx > 0) =>
                    /\ Sub.notFinite = <<>>
                    /\ RoundsTo(Sub.amount, -(ManualTotal - ManualFee) * 100000, fx)
                    /\ RoundsTo(Sub.netAmountInCollectiveCurrency, -ManualTotal * 100000, fx)
              /\ (fx = 0) =>
                    Sub.notFinite =
                        [amount |-> IF ManualTotal = ManualFee THEN "NaN" ELSE "-Infinity",
                         netAmountInCollectiveCurrency |-> "-Infinity"]

InvalidArguments == ManualFee < 0 \/ ManualTotal <= 0
ArgumentErrors ==
    {"Payment processor fee must be positive", "Total amount paid must be positive"}

\* C10: a manual call with a negative fee or a total that is not positive fails
\* with the argument error at its first step: nothing has been looked up, the
\* caller's transactionData and expense are untouched and nothing has been handed
\* to createDoubleEntry; a fee of 0 with a positive total is never refused.
C10_ArgumentsCheckedFirst ==
    (call.fn = Manual) =>
        /\ (InvalidArguments /\ pc # "checkArguments") =>
              /\ pc = "failed"
              /\ error = (IF ManualFee < 0
                          THEN "Payment processor fee must be positive"
                          ELSE "Total amount paid must be positive")
              /\ lookups = 0
              /\ transactionData = [feesPayer |-> "none"]
              /\ expense = call.expense
              /\ amounts = Absent
              /\ submitted = <<>>
        /\ ~InvalidArguments => error \notin ArgumentErrors

\* A fee of -1 is refused: the payee pays, yet the tag of line 242 is not
\* written, and the collective that is not loaded is not read.
C10_Witness ==
    /\ call.fn = Manual
    /\ ManualFee = -1
    /\ ManualTotal = 10000
    /\ expense.feesPayer = "PAYEE"
    /\ expense.collective = Absent
    /\ pc = "failed"
    /\ error = "Payment processor fee must be positive"
    /\ transactionData.feesPayer = "none"

DoubleEntryRejected == "createDoubleEntry rejected"

\* Where a call stands once a record has been handed to createDoubleEntry.
C11_State ==
    /\ Len(submitted) <= 1
    /\ (submitted # <<>>) <=>
          \/ pc \in {"createDoubleEntry", "done"}
          \/ (pc = "failed" /\ error = DoubleEntryRejected)
    /\ (pc = "done") => error = "none"
    /\ (pc = "failed") => error # "none"

\* What one step may do to the records handed to createDoubleEntry.
C11_Step ==
    /\ (submitted' # submitted) =>
          /\ submitted = <<>>
          /\ Len(submitted') = 1
          /\ pc = "build"
          /\ pc' = "createDoubleEntry"
          /\ error' = "none"
    /\ (pc = "build" /\ pc' # "failed") => Len(submitted') = 1
    /\ (pc = "createDoubleEntry") =>
          /\ submitted' = submitted
          /\ \/ (pc' = "done" /\ error' = "none")
             \/ (pc' = "failed" /\ error' = DoubleEntryRejected)

\* C11: either builder hands a record to createDoubleEntry at most once, as its
\* last step: once when every earlier step succeeded, never when the call failed
\* before (a rejected or empty collective lookup, a rejected FX-rate lookup, an
\* unsupported currency combination, a refused manual argument); after the call
\* the builder only passes on its result, so a rejection is not retried and is
\* the error of the call.
C11_SingleFinalWrite == []C11_State /\ [][C11_Step]_vars

\* createDoubleEntry rejected a paid call that had looked up its collective and
\* fetched its rate: one record was handed over and the call failed with that
\* rejection.
C11_Witness ==
    /\ call.fn = Paid
    /\ lookups = 1
    /\ call.expenseToHostFxRateConfig = Auto
    /\ pc = "failed"
    /\ error = DoubleEntryRejected
    /\ Len(submitted) = 1

====
